---- MODULE Spec2Model ----
(***************************************************************************)
(* Model of backend/src/llm_orchestrator.py: MultiLLMOrchestrator.         *)
(*                                                                         *)
(* One request at a time runs on its own asyncio event loop (main.py       *)
(* creates a new loop per request).  Numbers are exact integers:           *)
(*   confidence      in 1/1000          (0.85  -> 850)                     *)
(*   latency         in 1/10 s          (2.0 s -> 20)                      *)
(*   quality score   in 1/10000         (0.44  -> 4400)                    *)
(*   vote score      in 1/300000        (1.0   -> 300000)                  *)
(* Text is a sequence of pieces; <<"w", n>> is a run of n words.           *)
(***************************************************************************)
EXTENDS Integers, Sequences, FiniteSets, TLC

VARIABLES
    clients,      \* self.openai_client / GOOGLE_API_KEY / self.anthropic_client set?
    pc,           \* position of orchestrate_llm_responses
    query,        \* argument query
    country,      \* argument country
    context,      \* argument context
    domIdx,       \* index of the next trusted domain to search
    sources,      \* list of SourceReference built by get_official_sources
    tasks,        \* the coroutines handed to asyncio.gather, in llm_tasks order
    filtered,     \* responses after the filter of line 330
    responses,    \* responses after fallback, scoring and the quality sort
    best,         \* best_response
    result,       \* the dict returned to the caller
    overlap,      \* history: some adapter call started while another was in flight
    searchLog,    \* history: the answers of the search API, one per domain searched
    reused        \* history: this instance has served a request before

vars == <<clients, pc, query, country, context, domIdx, sources, tasks,
          filtered, responses, best, result, overlap, searchLog, reused>>

----------------------------------------------------------------------------
(* Bounds of the model *)

\* largest number of RelatedTopics one search response carries
MaxTopics == 3

\* longest source list handed to the Quality Scorer
MaxSources == 7

----------------------------------------------------------------------------
(* Program constants *)

DomainLimit == 3
SearchLimit == 2
SourceCap == 5
ConfOpenAI == 850
ConfGemini == 800
ConfClaude == 880
ConfFallback == 300
FallbackTime == 1
FallbackTokens == 50
Relevance == 900

\* Python None, as the value of LLMResponse.error and of an attribute not yet set
None == "<None>"
Unset == 0 - 1

FallbackError == "No LLM providers available - using fallback response"

Min(a, b) == IF a <= b THEN a ELSE b
Max(a, b) == IF a >= b THEN a ELSE b

\* seq[:n]
Take(seq, n) == SubSeq(seq, 1, Min(n, Len(seq)))

\* bool(x) of an Optional[str]
Truthy(s) == s # None /\ s # ""

----------------------------------------------------------------------------
(* Text *)

Words(n) == << <<"w", n>> >>

PieceWords(p) ==
    IF p[1] = "w" THEN p[2]
    ELSE IF p[1] = "fallback" THEN 3 + 1 + Max(p[3].words, 1) + 16
    ELSE 0

RECURSIVE WordCount(_)
\* len(text.split())
WordCount(text) ==
    IF text = << >> THEN 0 ELSE PieceWords(Head(text)) + WordCount(Tail(text))

\* f"HR guidance for {country}: {query}. Please ensure compliance with local
\* employment laws and consult official sources for the most current regulations."
\* "HR guidance for" is 3 words, "{country}:" one, the sentence after the query 16;
\* the full stop joins the last word of the query, or stands alone when the query
\* has no word.
FallbackContent(c, q) == << <<"fallback", c, q>> >>

----------------------------------------------------------------------------
(* Source retrieval *)

official_domains ==
    ("US" :> <<"dol.gov", "eeoc.gov", "nlrb.gov", "osha.gov">>) @@
    ("UK" :> <<"gov.uk", "acas.org.uk", "hse.gov.uk">>) @@
    ("SG" :> <<"mom.gov.sg", "cpf.gov.sg", "iras.gov.sg">>) @@
    ("AU" :> <<"fairwork.gov.au", "safeworkaustralia.gov.au">>) @@
    ("CA" :> <<"canada.ca", "labour.gc.ca">>) @@
    ("DE" :> <<"bmas.de", "arbeitsagentur.de">>) @@
    ("FR" :> <<"travail-emploi.gouv.fr", "service-public.fr">>) @@
    ("IN" :> <<"labour.gov.in", "epfindia.gov.in">>) @@
    ("MY" :> <<"mohr.gov.my", "kwsp.gov.my">>) @@
    ("HK" :> <<"labour.gov.hk", "mpf.org.hk">>) @@
    ("JP" :> <<"mhlw.go.jp", "jil.go.jp">>) @@
    ("ID" :> <<"kemnaker.go.id">>) @@
    ("TH" :> <<"mol.go.th">>)

\* official_domains.get(country, official_domains['US'])[:3]
Domains(c) ==
    Take(IF c \in DOMAIN official_domains THEN official_domains[c]
         ELSE official_domains["US"], DomainLimit)

MockHost == "example-gov.com"

\* One answer of the search API to the query "site:{domain} {query}".
\*   kind "ok"     : HTTP 200, RelatedTopics = topics; topics[k] tells whether
\*                   topic k is a dict with a 'Text' key
\*   kind "status" : HTTP status other than 200
\*   kind "error"  : the request or the decoding raised
SearchOk(topics) == [kind |-> "ok", topics |-> topics]
SearchStatus == [kind |-> "status", topics |-> << >>]
SearchError == [kind |-> "error", topics |-> << >>]

RECURSIVE TopicResults(_, _, _)
\* the loop of lines 133-139 over topics[k..]; the API is taken to honour the
\* site: restriction, so FirstURL lies on the searched domain
TopicResults(domain, topics, k) ==
    IF k > Len(topics) THEN << >>
    ELSE (IF topics[k]
          THEN << [title |-> <<"text100", domain, k>>,
                   url |-> <<domain, k>>,
                   snippet |-> <<"text", domain, k>>] >>
          ELSE << >>) \o TopicResults(domain, topics, k + 1)

\* search_web answering a failed request with no result
search_web_EmptyOnError(domain, q, limit, o) ==
    IF o.kind = "ok" THEN TopicResults(domain, Take(o.topics, limit), 1) ELSE << >>

\* _search_web(f"site:{domain} {query}", limit)
search_web(domain, q, limit, o) ==
    IF o.kind = "error"
    THEN << [title |-> <<"Official HR Guidelines for", domain, q.id>>,
             url |-> <<MockHost, 0>>,
             snippet |-> <<"Official guidance on", domain, q.id>>] >>
    ELSE IF o.kind = "status" THEN << >>
    ELSE TopicResults(domain, Take(o.topics, limit), 1)

RECURSIVE ToSources(_)
\* lines 103-111
ToSources(rs) ==
    IF rs = << >> THEN << >>
    ELSE << [title |-> Head(rs).title, url |-> Head(rs).url,
             snippet |-> Head(rs).snippet, relevance_score |-> Relevance,
             source_type |-> "government"] >> \o ToSources(Tail(rs))

----------------------------------------------------------------------------
(* Provider adapters *)

NoResponse ==
    [kind |-> "None", provider |-> "", content |-> << >>, confidence_score |-> 0,
     response_time |-> 0, tokens_used |-> 0, error |-> None,
     quality_score |-> Unset]

LLMResponse(p, c, conf, t, tok, err) ==
    [kind |-> "LLMResponse", provider |-> p, content |-> c,
     confidence_score |-> conf, response_time |-> t, tokens_used |-> tok,
     error |-> err, quality_score |-> Unset]

\* An outcome of one backend call: it returns a text after latency tenths of a
\* second, or raises an exception e after latency; msg is str(e).
Reply(c, lat, tok) == [ok |-> TRUE, content |-> c, latency |-> lat, tokens |-> tok, msg |-> ""]
Raise(m, lat) == [ok |-> FALSE, content |-> << >>, latency |-> lat, tokens |-> 0, msg |-> m]

call_openai(model, o) ==
    IF o.ok
    THEN LLMResponse(IF model = "gpt-4" THEN "openai_gpt4" ELSE "openai_gpt35",
                     o.content, ConfOpenAI, o.latency, o.tokens, None)
    ELSE LLMResponse("openai_gpt4", << >>, 0, o.latency, 0, o.msg)

\* tokens_used = len(response.text.split()) * 1.3
GeminiTokens(c) == (WordCount(c) * 13) \div 10

call_gemini(model, o) ==
    IF o.ok
    THEN LLMResponse(IF model = "gemini-pro" THEN "google_gemini_pro"
                     ELSE "google_gemini_flash",
                     o.content, ConfGemini, o.latency, GeminiTokens(o.content), None)
    ELSE LLMResponse("google_gemini_pro", << >>, 0, o.latency, 0, o.msg)

call_claude(model, o) ==
    IF o.ok
    THEN LLMResponse(IF model \in {"claude-3-sonnet-20240229"}
                     THEN "anthropic_claude3_sonnet" ELSE "anthropic_claude3_haiku",
                     o.content, ConfClaude, o.latency, o.tokens, None)
    ELSE LLMResponse("anthropic_claude3_sonnet", << >>, 0, o.latency, 0, o.msg)

\* the early return of an adapter whose client is missing
Unconfigured(fn) ==
    IF fn = "call_openai"
    THEN LLMResponse("openai_gpt4", << >>, 0, 0, 0, "OpenAI client not configured")
    ELSE LLMResponse("anthropic_claude3_sonnet", << >>, 0, 0, 0,
                     "Anthropic client not configured")

\* does the adapter find its client (call_gemini has no such check)
HasClient(fn) ==
    CASE fn = "call_openai" -> clients.openai
      [] fn = "call_claude" -> clients.anthropic
      [] OTHER -> TRUE

Adapter(fn, model, o) ==
    CASE fn = "call_openai" -> call_openai(model, o)
      [] fn = "call_gemini" -> call_gemini(model, o)
      [] OTHER -> call_claude(model, o)

Task(fn, model, prompt, sys) ==
    [fn |-> fn, model |-> model, prompt |-> prompt, system_context |-> sys,
     status |-> "pending", call |-> "none", result |-> NoResponse]

----------------------------------------------------------------------------
(* Scoring, voting, formatting *)

\* calculate_response_quality with the confidence unweighted and no final min
calculate_response_quality_Unweighted(r, srcs) ==
    LET wc == WordCount(r.content)
        len == IF r.content # << >>
               THEN (IF 50 <= wc /\ wc <= 500 THEN 2000
                     ELSE IF wc > 20 THEN 1000 ELSE 0)
               ELSE 0
        time == IF 10 <= r.response_time /\ r.response_time <= 100 THEN 1000
                ELSE IF r.response_time < 10 THEN 500 ELSE 0
        src == IF srcs # << >> THEN Min(Len(srcs) * 500, 3000) ELSE 0
    IN  r.confidence_score * 10 + len + time + src

\* calculate_response_quality, in 1/10000
calculate_response_quality(r, srcs) ==
    LET base == r.confidence_score * 4
        wc == WordCount(r.content)
        len == IF r.content # << >>
               THEN (IF 50 <= wc /\ wc <= 500 THEN 2000
                     ELSE IF wc > 20 THEN 1000 ELSE 0)
               ELSE 0
        time == IF 10 <= r.response_time /\ r.response_time <= 100 THEN 1000
                ELSE IF r.response_time < 10 THEN 500 ELSE 0
        src == IF srcs # << >> THEN Min(Len(srcs) * 500, 3000) ELSE 0
    IN  Min(base + len + time + src, 10000)

\* VoteLength without the test of line 402
VoteLength_Unguarded(r) ==
    IF 100 <= WordCount(r.content) /\ WordCount(r.content) <= 400
    THEN 30000 ELSE 15000

\* the length term of vote_best_response, in 1/300000
VoteLength(r) ==
    IF r.content # << >>
    THEN (IF 100 <= WordCount(r.content) /\ WordCount(r.content) <= 400
          THEN 30000 ELSE 15000)
    ELSE 0

\* the score vote_best_response gives one response, in 1/300000
VoteScore(r) ==
    12 * r.quality_score
    + 90 * r.confidence_score
    + 200 * Max(0, 300 - r.response_time)
    + VoteLength(r)

RECURSIVE InsertDesc(_, _)
\* the pair x = <<key, item>> placed behind every pair of the descending list
\* whose key is >= its own
InsertDesc(x, sorted) ==
    IF sorted = << >> THEN <<x>>
    ELSE IF Head(sorted)[1] >= x[1]
         THEN <<Head(sorted)>> \o InsertDesc(x, Tail(sorted))
         ELSE <<x>> \o sorted

RECURSIVE SortDesc(_)
\* list.sort(key=lambda x: x[0], reverse=True) on <<key, item>> pairs:
\* descending by key, and stable
SortDesc(pairs) ==
    IF pairs = << >> THEN << >>
    ELSE InsertDesc(pairs[Len(pairs)], SortDesc(SubSeq(pairs, 1, Len(pairs) - 1)))

Items(pairs) == [i \in 1..Len(pairs) |-> pairs[i][2]]

\* Scored adding the new score to the one a response already carries
Scored_Accumulating(rs, srcs) ==
    [i \in 1..Len(rs) |->
        [rs[i] EXCEPT !.quality_score =
            Max(rs[i].quality_score, 0) + calculate_response_quality(rs[i], srcs)]]

\* Scored with the loop of line 345 leaving after its first turn
Scored_HeadOnly(rs, srcs) ==
    [i \in 1..Len(rs) |->
        IF i = 1
        THEN [rs[i] EXCEPT !.quality_score = calculate_response_quality(rs[i], srcs)]
        ELSE rs[i]]

\* lines 345-346
Scored(rs, srcs) ==
    [i \in 1..Len(rs) |->
        [rs[i] EXCEPT !.quality_score = calculate_response_quality(rs[i], srcs)]]

\* SortByQuality with the sort of line 349 left out
SortByQuality_Skipped(rs) == rs

\* line 349: responses.sort(key=lambda x: x.quality_score, reverse=True)
SortByQuality(rs) == Items(SortDesc([i \in 1..Len(rs) |-> <<rs[i].quality_score, rs[i]>>]))

\* lines 387-407
scored_responses(rs) == [i \in 1..Len(rs) |-> <<VoteScore(rs[i]), rs[i]>>]

\* vote_best_response: lines 410-411 (called with a non-empty list only;
\* scored_responses[0] raises IndexError otherwise)
vote_best_response(rs) == SortDesc(scored_responses(rs))[1][2]

RECURSIVE Footnotes(_, _)
\* Footnotes with enumerate counting from 0
Footnotes_ZeroBased(srcs, i) ==
    [k \in 1..(Len(srcs) - i + 1) |->
        <<"legend", i + k - 2, srcs[i + k - 1].title, srcs[i + k - 1].url>>]

\* lines 423-424, from the i-th source on
Footnotes(srcs, i) ==
    IF i > Len(srcs) THEN << >>
    ELSE << <<"legend", i, srcs[i].title, srcs[i].url>> >> \o Footnotes(srcs, i + 1)

\* format_response_with_citations without the early return of lines 415-416
format_response_with_citations_NoEarlyReturn(content, srcs) ==
    content \o << <<"sources-header">> >> \o Footnotes(srcs, 1)

\* lines 413-426
format_response_with_citations(content, srcs) ==
    IF srcs = << >> THEN content
    ELSE content \o << <<"sources-header">> >> \o Footnotes(srcs, 1)

\* Usable keeping the responses that carry an error
Usable_Inverted(r) == r.kind = "LLMResponse" /\ Truthy(r.error)

\* the filter of line 330
Usable(r) == r.kind = "LLMResponse" /\ ~Truthy(r.error)

RECURSIVE Filter(_)
Filter(rs) ==
    IF rs = << >> THEN << >>
    ELSE (IF Usable(Head(rs)) THEN <<Head(rs)>> ELSE << >>) \o Filter(Tail(rs))

\* lines 334-341
fallback_response(c, q) ==
    LLMResponse("openai_gpt4", FallbackContent(c, q), ConfFallback, FallbackTime,
                FallbackTokens, FallbackError)

\* WithFallback that never synthesizes the fallback response
WithFallback_Never(rs, c, q) == rs

\* lines 333-342
WithFallback(rs, c, q) == IF rs = << >> THEN <<fallback_response(c, q)>> ELSE rs

RECURSIVE SumTokens(_)
SumTokens(rs) == IF rs = << >> THEN 0 ELSE Head(rs).tokens_used + SumTokens(Tail(rs))

NoResult ==
    [content |-> << >>, provider_used |-> "", confidence_score |-> Unset,
     response_time |-> Unset, sources |-> << >>, llm_responses_count |-> Unset,
     tokens_used |-> Unset]

\* ResultDict taking the confidence from the head of the sorted list
ResultDict_FirstConfidence(b, rs, srcs) ==
    [content |-> format_response_with_citations(b.content, srcs),
     provider_used |-> b.provider,
     confidence_score |-> rs[1].quality_score,
     response_time |-> b.response_time,
     sources |-> [i \in 1..Len(srcs) |->
                    [title |-> srcs[i].title, url |-> srcs[i].url,
                     type |-> srcs[i].source_type]],
     llm_responses_count |-> Len(rs),
     tokens_used |-> SumTokens(rs)]

\* lines 361-375
ResultDict(b, rs, srcs) ==
    [content |-> format_response_with_citations(b.content, srcs),
     provider_used |-> b.provider,
     confidence_score |-> b.quality_score,
     response_time |-> b.response_time,
     sources |-> [i \in 1..Len(srcs) |->
                    [title |-> srcs[i].title, url |-> srcs[i].url,
                     type |-> srcs[i].source_type]],
     llm_responses_count |-> Len(rs),
     tokens_used |-> SumTokens(rs)]

\* EnhancedContext with enumerate counting from 0
EnhancedContext_ZeroBased(ctx, srcs) ==
    <<ctx,
      [i \in 1..Len(srcs) |-> <<i - 1, srcs[i].title, srcs[i].snippet>>],
      "IMPORTANT: cite with [1], [2] notation">>

\* lines 299-305
EnhancedContext(ctx, srcs) ==
    <<ctx,
      [i \in 1..Len(srcs) |-> <<i, srcs[i].title, srcs[i].snippet>>],
      "IMPORTANT: cite with [1], [2] notation">>

\* LLMTasks without the tests of lines 311, 316 and 321
LLMTasks_Unconditional(cl, q, sys) ==
    <<Task("call_openai", "gpt-4", q, sys),
      Task("call_openai", "gpt-3.5-turbo", q, sys),
      Task("call_gemini", "gemini-pro", q, sys),
      Task("call_gemini", "gemini-1.5-flash", q, sys),
      Task("call_claude", "claude-3-sonnet-20240229", q, sys),
      Task("call_claude", "claude-3-haiku-20240307", q, sys)>>

\* lines 308-323
LLMTasks(cl, q, sys) ==
    (IF cl.openai
     THEN <<Task("call_openai", "gpt-4", q, sys),
            Task("call_openai", "gpt-3.5-turbo", q, sys)>> ELSE << >>) \o
    (IF cl.google
     THEN <<Task("call_gemini", "gemini-pro", q, sys),
            Task("call_gemini", "gemini-1.5-flash", q, sys)>> ELSE << >>) \o
    (IF cl.anthropic
     THEN <<Task("call_claude", "claude-3-sonnet-20240229", q, sys),
            Task("call_claude", "claude-3-haiku-20240307", q, sys)>> ELSE << >>)

----------------------------------------------------------------------------
(* Inputs of the environment *)

Query(id, n) == [id |-> id, words |-> n]

\* n RelatedTopics, each with a 'Text'
AllText(n) == [k \in 1..n |-> TRUE]

Queries == {Query("leave", 1), Query("long", 30)}
Countries == {"ID", "ZZ"}
Contexts == {"You are an expert HR advisor"}
SearchOutcomes == {SearchOk(AllText(0)), SearchOk(AllText(MaxTopics)), SearchError}
BackendOutcomes == {Reply(Words(120), 20, 100), Raise("", 20), Raise("Connection error.", 20)}

----------------------------------------------------------------------------
(* State machine of one orchestrator instance *)

Init ==
    /\ clients \in [openai : BOOLEAN, google : BOOLEAN, anthropic : BOOLEAN]
    /\ pc = "idle"
    /\ query = Query("", 0)
    /\ country = ""
    /\ context = ""
    /\ domIdx = 0
    /\ sources = << >>
    /\ tasks = << >>
    /\ filtered = << >>
    /\ responses = << >>
    /\ best = NoResponse
    /\ result = NoResult
    /\ overlap = FALSE
    /\ searchLog = << >>
    /\ reused = FALSE

\* orchestrate_llm_responses(query, country, context) is called; line 296 enters
\* get_official_sources
Start(q, c, x) ==
    /\ pc = "idle"
    /\ pc' = "retrieving"
    /\ query' = q
    /\ country' = c
    /\ context' = x
    /\ domIdx' = 1
    /\ UNCHANGED <<clients, sources, tasks, filtered, responses, best, result, overlap, searchLog, reused>>

\* SearchRaises with the handler of line 141 missing
SearchRaises_Uncaught(o) == o.kind = "error"

\* does an exception leave _search_web: never, line 141 catches every Exception
SearchRaises(o) == FALSE

\* TopSources without the cut of line 116
TopSources_All(found) == found

\* line 116: return sources[:5]
TopSources(found) == Take(found, SourceCap)

\* one turn of the loop of lines 99-111: the search for the next domain answers
\* with o; after the last domain get_official_sources returns sources[:5].
\* An exception leaving _search_web would end the loop in the handler of
\* line 113, and line 116 would return what was collected before.
SearchDomain(o) ==
    /\ pc = "retrieving"
    /\ searchLog' = Append(searchLog, o)
    /\ LET domain == Domains(country)[domIdx]
           found == sources \o ToSources(search_web(domain, query, SearchLimit, o))
       IN  IF SearchRaises(o)
           THEN /\ domIdx' = domIdx
                /\ sources' = TopSources(sources)
                /\ pc' = "dispatch"
           ELSE IF domIdx < Len(Domains(country))
           THEN /\ domIdx' = domIdx + 1
                /\ sources' = found
                /\ pc' = "retrieving"
           ELSE /\ domIdx' = domIdx
                /\ sources' = TopSources(found)
                /\ pc' = "dispatch"
    /\ UNCHANGED <<clients, query, country, context, tasks, filtered, responses,
                   best, result, overlap, reused>>

\* lines 298-328: the augmented context is built and one coroutine per model of
\* every configured backend is handed to asyncio.gather
Dispatch ==
    /\ pc = "dispatch"
    /\ tasks' = LLMTasks(clients, query, EnhancedContext(context, sources))
    /\ pc' = "gather"
    /\ UNCHANGED <<clients, query, country, context, domIdx, sources, filtered,
                   responses, best, result, overlap, searchLog, reused>>

\* The event loop runs the next ready task.  gather schedules the tasks in
\* llm_tasks order; an adapter coroutine contains no await (the clients are the
\* blocking ones), so it holds the loop's only thread from its first step until
\* it returns: task i starts when every task before it has finished.
StartCall(i) ==
    /\ pc = "gather"
    /\ i \in 1..Len(tasks)
    /\ tasks[i].status = "pending"
    /\ \A j \in 1..(i - 1) : tasks[j].status = "done"
    /\ tasks' = [tasks EXCEPT ![i] =
                    IF HasClient(tasks[i].fn)
                    THEN [tasks[i] EXCEPT !.status = "running"]
                    ELSE [tasks[i] EXCEPT !.status = "done",
                                          !.call = "unconfigured",
                                          !.result = Unconfigured(tasks[i].fn)]]
    /\ overlap' = (overlap \/ \E j \in 1..Len(tasks) : j # i /\ tasks[j].status = "running")
    /\ UNCHANGED <<clients, pc, query, country, context, domIdx, sources, filtered,
                   responses, best, result, searchLog, reused>>

\* the blocking backend call of task i ends with outcome o and the adapter
\* returns its LLMResponse
BackendReturns(i, o) ==
    /\ pc = "gather"
    /\ i \in 1..Len(tasks)
    /\ tasks[i].status = "running"
    /\ tasks' = [tasks EXCEPT ![i] =
                    [tasks[i] EXCEPT !.status = "done",
                                     !.call = IF o.ok THEN "returned" ELSE "raised",
                                     !.result = Adapter(tasks[i].fn, tasks[i].model, o)]]
    /\ UNCHANGED <<clients, pc, query, country, context, domIdx, sources, filtered,
                   responses, best, result, overlap, searchLog, reused>>

\* Gathered with the latest task first
Gathered_Reversed == [i \in 1..Len(tasks) |-> tasks[Len(tasks) + 1 - i].result]

\* the results of gather, in the order of its arguments
Gathered == [i \in 1..Len(tasks) |-> tasks[i].result]

\* GatherDone as a first-completed wait
GatherDone_FirstCompleted ==
    tasks = << >> \/ \E i \in 1..Len(tasks) : tasks[i].status = "done"

\* line 328: the future of gather is done when every task is
GatherDone == \A i \in 1..Len(tasks) : tasks[i].status = "done"

\* lines 326-375: gather has returned (or there was no task); filter, fallback,
\* scoring, sort, selection, formatting, return
Complete ==
    /\ pc = "gather"
    /\ GatherDone
    /\ LET kept == IF tasks # << >> THEN Filter(Gathered) ELSE << >>
           rs == SortByQuality(Scored(WithFallback(kept, country, query), sources))
       IN  /\ filtered' = kept
           /\ responses' = rs
           /\ IF rs = << >>
              THEN \* len(responses) != 1, and scored_responses[0] raises IndexError
                   /\ pc' = "raised"
                   /\ UNCHANGED <<best, result>>
              ELSE LET b == IF Len(rs) = 1 THEN rs[1] ELSE vote_best_response(rs)
                   IN  /\ best' = b
                       /\ result' = ResultDict(b, rs, sources)
                       /\ pc' = "done"
    /\ UNCHANGED <<clients, query, country, context, domIdx, sources, tasks, overlap, searchLog, reused>>

\* LocalAfterReturn for a list kept on the instance
LocalAfterReturn_Kept(v) == v

\* what is left of a local list (line 76: sources = []) once the call has
\* returned: nothing, the next call makes its own
LocalAfterReturn(v) == << >>

\* the caller has taken the result (or the exception); everything but the
\* clients was local to the call
Return ==
    /\ pc \in {"done", "raised"}
    /\ pc' = "idle"
    /\ query' = Query("", 0)
    /\ country' = ""
    /\ context' = ""
    /\ domIdx' = 0
    /\ sources' = LocalAfterReturn(sources)
    /\ tasks' = << >>
    /\ filtered' = << >>
    /\ responses' = << >>
    /\ best' = NoResponse
    /\ result' = NoResult
    /\ overlap' = FALSE
    /\ searchLog' = << >>
    /\ reused' = TRUE
    /\ UNCHANGED clients

Next ==
    \/ \E q \in Queries, c \in Countries, x \in Contexts : Start(q, c, x)
    \/ \E o \in SearchOutcomes : SearchDomain(o)
    \/ Dispatch
    \/ \E i \in 1..6 : StartCall(i)
    \/ \E i \in 1..6, o \in BackendOutcomes : BackendReturns(i, o)
    \/ Complete
    \/ Return

Spec == Init /\ [][Next]_vars

----------------------------------------------------------------------------
(* The same machine with backends of varied replies, for the selection *)

VoteContents == {<< >>, Words(10), Words(30), Words(60), Words(120), Words(600)}
VoteLatencies == {20, 80}
VoteOutcomes ==
    {Reply(c, lat, 100) : c \in VoteContents, lat \in VoteLatencies}
    \cup {Raise("", 20), Raise("Connection error.", 20)}
VoteSearchOutcomes == {SearchOk(AllText(MaxTopics)), SearchError}

InitVote ==
    /\ Init
    /\ clients.openai
    /\ ~clients.google

NextVote ==
    \/ \E c \in {"ID"}, x \in Contexts : Start(Query("leave", 1), c, x)
    \/ \E o \in VoteSearchOutcomes : SearchDomain(o)
    \/ Dispatch
    \/ \E i \in 1..4 : StartCall(i)
    \/ \E i \in 1..4, o \in VoteOutcomes : BackendReturns(i, o)
    \/ Complete
    \/ Return

SpecVote == InitVote /\ [][NextVote]_vars

----------------------------------------------------------------------------
(* The Quality Scorer on its own: one candidate, one source list *)

ScoreConfidences == {0, ConfFallback, ConfGemini, ConfOpenAI, ConfClaude, 1000}
ScoreContents ==
    {<< >>, Words(0), Words(20), Words(21), Words(49), Words(50), Words(500), Words(501)}
ScoreLatencies == {0, 5, 9, 10, 100, 101, 300}

\* n SourceReference objects as lines 103-111 build them
SourceList(n) == ToSources(TopicResults("dol.gov", AllText(n), 1))

\* the state at line 344: the responses are filtered, none is scored yet
InitScore ==
    /\ clients = [openai |-> TRUE, google |-> FALSE, anthropic |-> FALSE]
    /\ pc = "score"
    /\ query = Query("leave", 1)
    /\ country = "US"
    /\ context = "You are an expert HR advisor"
    /\ domIdx = 0
    /\ \E n \in 0..MaxSources : sources = SourceList(n)
    /\ tasks = << >>
    /\ \E conf \in ScoreConfidences, c \in ScoreContents, t \in ScoreLatencies :
          /\ filtered = <<LLMResponse("openai_gpt4", c, conf, t, 100, None)>>
          /\ responses = filtered
    /\ best = NoResponse
    /\ result = NoResult
    /\ overlap = FALSE
    /\ searchLog = << >>
    /\ reused = FALSE

\* lines 345-346: every response gets its quality_score
Score ==
    /\ pc = "score"
    /\ responses' = Scored(responses, sources)
    /\ pc' = "scored"
    /\ UNCHANGED <<clients, query, country, context, domIdx, sources, tasks, filtered,
                   best, result, overlap, searchLog, reused>>

\* the loop of lines 345-346 run a second time over the scored responses
Rescore ==
    /\ pc = "scored"
    /\ responses' = Scored(responses, sources)
    /\ pc' = "rescored"
    /\ UNCHANGED <<clients, query, country, context, domIdx, sources, tasks, filtered,
                   best, result, overlap, searchLog, reused>>

\* lines 349-375
Select ==
    /\ pc \in {"scored", "rescored"}
    /\ LET rs == SortByQuality(responses)
           b == IF Len(rs) = 1 THEN rs[1] ELSE vote_best_response(rs)
       IN  /\ responses' = rs
           /\ best' = b
           /\ result' = ResultDict(b, rs, sources)
    /\ pc' = "done"
    /\ UNCHANGED <<clients, query, country, context, domIdx, sources, tasks, filtered,
                   overlap, searchLog, reused>>

NextScore ==
    \/ Score
    \/ Rescore
    \/ Select
    \/ Return

SpecScore == InitScore /\ [][NextScore]_vars

----------------------------------------------------------------------------
(* The same machine with no backend and search responses of every shape, for
   the retrieval *)

\* four, two and one table entries, and a country the table does not have
RetrieveCountries == {"US", "AU", "ID", "ZZ"}

\* RelatedTopics of up to MaxTopics entries, each a dict with 'Text' or not
TopicLists == UNION {[1..n -> BOOLEAN] : n \in 0..MaxTopics}
RetrieveOutcomes == {SearchOk(t) : t \in TopicLists} \cup {SearchStatus, SearchError}

InitRetrieve ==
    /\ Init
    /\ clients = [openai |-> FALSE, google |-> FALSE, anthropic |-> FALSE]

NextRetrieve ==
    \/ \E c \in RetrieveCountries, x \in Contexts : Start(Query("leave", 1), c, x)
    \/ \E o \in RetrieveOutcomes : SearchDomain(o)
    \/ Dispatch
    \/ Complete
    \/ Return

SpecRetrieve == InitRetrieve /\ [][NextRetrieve]_vars

RECURSIVE Aggregated(_)
\* the list sources after the loop of lines 99-111 has run for the first n
\* domains, the searches having answered as logged
Aggregated(n) ==
    IF n = 0 THEN << >>
    ELSE Aggregated(n - 1) \o
         ToSources(search_web(Domains(country)[n], query, SearchLimit, searchLog[n]))

----------------------------------------------------------------------------
(* The machine with backend calls that may never return, and the scheduling of
   the event loop, for termination *)

\* the blocking backend call of task i never returns: the adapter stays in it
Hang(i) ==
    /\ pc = "gather"
    /\ i \in 1..Len(tasks)
    /\ tasks[i].status = "running"
    /\ tasks' = [tasks EXCEPT ![i] = [tasks[i] EXCEPT !.status = "hung"]]
    /\ UNCHANGED <<clients, pc, query, country, context, domIdx, sources, filtered,
                   responses, best, result, overlap, searchLog, reused>>

LiveCountries == {"ID", "AU"}
LiveSearchOutcomes == {SearchOk(AllText(1)), SearchError}

InitLive ==
    /\ Init
    /\ clients.openai
    /\ ~clients.google

\* a call in flight takes one of its ways: it returns, it raises, or it hangs
CallEnds == \E i \in 1..4 : Hang(i) \/ \E o \in BackendOutcomes : BackendReturns(i, o)

NextLive ==
    \/ \E c \in LiveCountries, x \in Contexts : Start(Query("leave", 1), c, x)
    \/ \E o \in LiveSearchOutcomes : SearchDomain(o)
    \/ Dispatch
    \/ \E i \in 1..4 : StartCall(i)
    \/ \E i \in 1..4, o \in BackendOutcomes : BackendReturns(i, o)
    \/ \E i \in 1..4 : Hang(i)
    \/ Complete
    \/ Return

\* The event loop runs every coroutine that is ready (searches answer, the
\* tasks of gather are started, the caller of gather is resumed when its future
\* is done); nothing obliges a caller to make a request or a backend to answer.
\* The last conjunct is WF_vars(Complete) written out: Complete is enabled
\* exactly when the gather is done and every Complete step leaves "gather", so
\* weak fairness of Complete says that the request is not left for ever at a
\* gather that is done.
Scheduling ==
    /\ WF_vars(\E o \in LiveSearchOutcomes : SearchDomain(o))
    /\ WF_vars(Dispatch)
    /\ WF_vars(\E i \in 1..4 : StartCall(i))
    /\ WF_vars(CallEnds)
    /\ []<>(~(pc = "gather" /\ GatherDone))

SpecLive == InitLive /\ [][NextLive]_vars /\ Scheduling

----------------------------------------------------------------------------
(* Properties *)

\* the backend call of task i returned a text
Succeeded(i) == tasks[i].status = "done" /\ tasks[i].result.error = None

\* a response as it was before the Quality Scorer set its quality_score
Unscored(r) == [r EXCEPT !.quality_score = Unset]

IsPrefix(a, b) == Len(a) <= Len(b) /\ SubSeq(b, 1, Len(a)) = a

IsFallback(r) == r.error = FallbackError

\* C1: whatever the configured backends, the adapter outcomes and the search
\* outcomes, orchestrate_llm_responses never raises, and when it has returned
\* every field of the result record is filled in.
C1_AlwaysReturns ==
    /\ pc # "raised"
    /\ pc = "done" =>
          /\ result.provider_used # ""
          /\ result.confidence_score # Unset
          /\ result.response_time # Unset
          /\ result.llm_responses_count # Unset
          /\ result.tokens_used # Unset
          /\ Len(result.sources) = Len(sources)
          /\ IsPrefix(best.content, result.content)

\* a request has returned although every adapter call failed and a search failed
C1_Witness ==
    /\ pc = "done"
    /\ tasks # << >>
    /\ \A i \in 1..Len(tasks) : Truthy(tasks[i].result.error)
    /\ \E k \in 1..Len(sources) : sources[k].url[1] = MockHost

\* C2 (as claimed): when no candidate is left after the filter, the result names
\* the provider "fallback" and its confidence_score is at most 0.3.
C2_FallbackLabelled ==
    (pc = "done" /\ filtered = << >>) =>
        /\ result.provider_used = "fallback"
        /\ result.confidence_score <= 3000

\* C3 (as claimed): candidate_count is the number of backend calls of the
\* request that completed without failure, 0 in the fallback case.
C3_CandidateCount ==
    pc = "done" =>
        result.llm_responses_count = Cardinality({i \in 1..Len(tasks) : Succeeded(i)})

\* C4 (as claimed): no response with its failure set is scored, voted on or
\* returned as the winner.
C4_NoFailedScored ==
    /\ \A i \in 1..Len(responses) : ~Truthy(responses[i].error)
    /\ ~Truthy(best.error)

\* C5 (as claimed): the fallback candidate has confidence 0.3, token count 0 and
\* no failure, so the fallback result reports 0 tokens.
C5_FallbackCandidate ==
    (pc = "done" /\ filtered = << >>) =>
        /\ Len(responses) = 1
        /\ responses[1].confidence_score = 300
        /\ responses[1].tokens_used = 0
        /\ responses[1].error = None
        /\ result.tokens_used = 0

\* C6: when some backend call succeeded the winner is the response of a call
\* that succeeded and the final text starts with its content; the fallback text
\* is returned only when the filter left nothing; a single candidate left by the
\* filter is the winner.
C6_WinnerIsCandidate ==
    pc = "done" =>
        /\ (\E i \in 1..Len(tasks) : Succeeded(i)) =>
              \E i \in 1..Len(tasks) :
                  /\ Succeeded(i)
                  /\ Unscored(best) = tasks[i].result
                  /\ IsPrefix(tasks[i].result.content, result.content)
        /\ IsFallback(best) => filtered = << >>
        /\ Len(filtered) = 1 => Unscored(best) = filtered[1]

\* a call that succeeded has won against a failed call that passed the filter
C6_Witness ==
    /\ pc = "done"
    /\ Len(filtered) >= 2
    /\ \E i \in 1..Len(filtered) : filtered[i].error = ""
    /\ best.error = None
    /\ best.content # << >>

\* C9 (as claimed): every adapter call of the request has run, and the usable
\* candidates are exactly the results of the calls that succeeded.
C9_FaultIsolation ==
    pc = "done" =>
        /\ \A i \in 1..Len(tasks) : tasks[i].status = "done"
        /\ Len(filtered) = Cardinality({i \in 1..Len(tasks) : Succeeded(i)})
        /\ \A k \in 1..Len(filtered) : filtered[k].error = None

\* C10 (as claimed): the adapter calls of a request overlap in time.
C10_CallsOverlap ==
    (pc = "done" /\ Len(tasks) >= 2) => overlap

\* what the code does instead: at most one adapter call is in flight
CallsSerialized ==
    /\ ~overlap
    /\ Cardinality({i \in 1..Len(tasks) : tasks[i].status = "running"}) <= 1

\* the vote score of the specification, in 1/300000: the length term is 0.1 or
\* 0.05 whatever the content
ClaimedVote(r) ==
    12 * r.quality_score + 90 * r.confidence_score
    + 200 * Max(0, 300 - r.response_time)
    + (IF 100 <= WordCount(r.content) /\ WordCount(r.content) <= 400
       THEN 30000 ELSE 15000)

\* the same with no length term for the empty string
AmendedVote(r) ==
    12 * r.quality_score + 90 * r.confidence_score
    + 200 * Max(0, 300 - r.response_time)
    + (IF r.content = << >> THEN 0
       ELSE IF 100 <= WordCount(r.content) /\ WordCount(r.content) <= 400
            THEN 30000 ELSE 15000)

\* C7 (as claimed): with two or more candidates the winner has the highest
\* 0.4*quality + 0.3*confidence + 0.2*max(0, 1 - latency/30s)
\* + 0.1*(1.0 if 100 <= words <= 400 else 0.5), empty contents included.
C7_VoteAsClaimed ==
    (pc = "done" /\ Len(responses) >= 2) =>
        \A k \in 1..Len(responses) : ClaimedVote(best) >= ClaimedVote(responses[k])

\* C7 (amended): with two or more candidates the winner has the highest
\* 0.4*quality + 0.3*confidence + 0.2*max(0, 1 - latency/30s) + length term,
\* the length term being 0.1*(1.0 if 100 <= words <= 400 else 0.5) for a
\* non-empty content and 0 for the empty string.
C7_VoteAmended ==
    (pc = "done" /\ Len(responses) >= 2) =>
        /\ \E k \in 1..Len(responses) : responses[k] = best
        /\ \A k \in 1..Len(responses) : AmendedVote(best) >= AmendedVote(responses[k])

\* a candidate with empty content has lost although the claimed score put it first
C7_Witness ==
    /\ pc = "done"
    /\ Len(responses) >= 2
    /\ best.content # << >>
    /\ \E k \in 1..Len(responses) :
          /\ responses[k].content = << >>
          /\ responses[k].error = None
          /\ ClaimedVote(responses[k]) > ClaimedVote(best)

\* position of a scored response in the list gather returned and the filter kept,
\* which is in llm_tasks order
RegPos(r) ==
    CHOOSE i \in 1..Len(filtered) :
        /\ filtered[i] = Unscored(r)
        /\ \A j \in 1..(i - 1) : filtered[j] # Unscored(r)

\* C8 (as claimed): among the candidates with the highest vote score the one
\* registered first is returned.
C8_TieByRegistration ==
    (pc = "done" /\ Len(responses) >= 2) =>
        \A k \in 1..Len(responses) :
            VoteScore(responses[k]) = VoteScore(best)
                => RegPos(best) <= RegPos(responses[k])

\* C8 (amended): among the candidates with the highest vote score the one with
\* the highest quality_score is returned, and among those of equal quality_score
\* the one registered first.
C8_TieByQualityThenRegistration ==
    (pc = "done" /\ Len(responses) >= 2) =>
        \A k \in 1..Len(responses) :
            VoteScore(responses[k]) = VoteScore(best)
                => \/ best.quality_score > responses[k].quality_score
                   \/ /\ best.quality_score = responses[k].quality_score
                      /\ RegPos(best) <= RegPos(responses[k])

\* two candidates tie on the vote score and the one registered later has won
C8_Witness ==
    /\ pc = "done"
    /\ Len(responses) >= 2
    /\ \E k \in 1..Len(responses) :
          /\ VoteScore(responses[k]) = VoteScore(best)
          /\ \A j \in 1..Len(responses) : VoteScore(responses[j]) <= VoteScore(best)
          /\ best.quality_score > responses[k].quality_score
          /\ RegPos(best) > RegPos(responses[k])

\* C11: filtering, scoring and selection happen only after every adapter call
\* launched for the request has completed; no result is produced while a
\* launched call is pending or in flight.
C11_AllCompleteBarrier ==
    (pc \in {"done", "raised"} \/ filtered # << >> \/ responses # << >>) =>
        \A i \in 1..Len(tasks) : tasks[i].status = "done"

\* a result was produced from four calls of which some failed and some succeeded
C11_Witness ==
    /\ pc = "done"
    /\ Len(tasks) >= 4
    /\ \E i \in 1..Len(tasks) : Succeeded(i)
    /\ \E i \in 1..Len(tasks) : Truthy(tasks[i].result.error)


\* the score as the specification words it, in 1/10000, for a candidate r and
\* n sources
ClaimedQuality(r, n) ==
    LET wc == WordCount(r.content)
        t == r.response_time
    IN  Min(10000,
            4 * r.confidence_score
            + (CASE wc \in 50..500 -> 2000 [] wc > 500 -> 1000
                 [] wc \in 21..49 -> 1000 [] OTHER -> 0)
            + (CASE t < 10 -> 500 [] t \in 10..100 -> 1000 [] OTHER -> 0)
            + Min(500 * n, 3000))

\* C12: for every candidate and source list, the quality score is
\* 0.4*confidence + length term (0.2 for 50..500 words, 0.1 for more than 20
\* words outside that range, else 0) + latency term (0.1 for 1s..10s, 0.05 below
\* 1s, 0 above 10s) + min(0.05*sources, 0.3), capped at 1.0.
C12_QualityFormula ==
    pc \in {"scored", "rescored"} =>
        \A i \in 1..Len(responses) :
            responses[i].quality_score = ClaimedQuality(responses[i], Len(sources))

\* a 501-word answer of confidence 0.88 after 0.5s with seven sources scores
\* 0.352 + 0.1 + 0.05 + 0.3
C12_Witness ==
    /\ pc = "scored"
    /\ Len(sources) = 7
    /\ \E i \in 1..Len(responses) :
          /\ responses[i].confidence_score = ConfClaude
          /\ WordCount(responses[i].content) = 501
          /\ responses[i].response_time = 5
          /\ responses[i].quality_score = 8020

\* C13: the quality_score of every candidate lies in [0,1], and so does the
\* confidence_score of the result.
C13_ScoreInUnitRange ==
    /\ \A i \in 1..Len(responses) :
          responses[i].quality_score # Unset => responses[i].quality_score \in 0..10000
    /\ pc = "done" => result.confidence_score \in 0..10000

\* the best score an adapter's candidate can get with five sources: 0.902
C13_Witness ==
    /\ pc = "done"
    /\ Len(sources) = SourceCap
    /\ best.confidence_score = ConfClaude
    /\ result.confidence_score = 9020

\* C14: scoring a candidate a second time with the same source list gives the
\* same score, and leaves the candidate, the source list and the rest of the
\* state as they were.
C14_ScorerIdempotent ==
    [][(pc = "scored" /\ pc' = "rescored") =>
            /\ responses' = responses
            /\ UNCHANGED <<clients, query, country, context, domIdx, sources, tasks,
                           filtered, best, result, overlap, searchLog, reused>>]_vars

\* a candidate with a positive score and a non-empty source list was scored twice
C14_Witness ==
    /\ pc = "rescored"
    /\ sources # << >>
    /\ responses[1].quality_score > 0

\* calls a and b returned texts with the same reported confidence after the same
\* latency, a with 100..400 words and b with more than 500; every other call
\* of the request failed, and there is one
LengthScenario(a, b) ==
    /\ a # b
    /\ Succeeded(a) /\ Succeeded(b)
    /\ \E i \in 1..Len(tasks) : i \notin {a, b}
    /\ \A i \in 1..Len(tasks) : i \notin {a, b} => ~Succeeded(i)
    /\ tasks[a].result.confidence_score = tasks[b].result.confidence_score
    /\ tasks[a].result.response_time = tasks[b].result.response_time
    /\ WordCount(tasks[a].result.content) \in 100..400
    /\ WordCount(tasks[b].result.content) > 500

\* the shorter answer gets the 0.2 length term, the longer one 0.1, and the
\* shorter one is returned
ShorterWins(a, b) ==
    /\ \E x, y \in 1..Len(responses) :
          /\ Unscored(responses[x]) = tasks[a].result
          /\ Unscored(responses[y]) = tasks[b].result
          /\ responses[x].quality_score = responses[y].quality_score + 1000
    /\ Unscored(best) = tasks[a].result

\* C15 (as claimed): when one launched call fails and two succeed with equal
\* confidence and latency, one with 100..400 words and one with more than 500,
\* the candidate count is 2, only the shorter answer gets the 0.2 length term,
\* and the shorter answer wins whichever of the two was registered first.
C15_LengthScenario ==
    pc = "done" =>
        \A a, b \in 1..Len(tasks) :
            LengthScenario(a, b) =>
                /\ result.llm_responses_count = 2
                /\ ShorterWins(a, b)

\* what holds of the scenario in the code: the shorter answer is scored 0.1
\* higher and wins, in either registration order
LengthScenarioWinner ==
    pc = "done" =>
        \A a, b \in 1..Len(tasks) : LengthScenario(a, b) => ShorterWins(a, b)

RECURSIVE SucceededTokens(_)
\* the tokens of the calls among the first n that returned a text
SucceededTokens(n) ==
    IF n = 0 THEN 0
    ELSE (IF Succeeded(n) THEN tasks[n].result.tokens_used ELSE 0) + SucceededTokens(n - 1)

\* C16 (as claimed): the tokens_used of the result is the sum of the token counts
\* of exactly the backend calls of the request that did not fail.
C16_TotalTokens ==
    pc = "done" => result.tokens_used = SucceededTokens(Len(tasks))

\* what holds in the code: the sum is right whenever the filter kept a response
TotalTokensOfKept ==
    (pc = "done" /\ filtered # << >>) => result.tokens_used = SucceededTokens(Len(tasks))

\* C17: the provider_used, confidence_score and response_time of the result all
\* come from one scored candidate, the winner whose content opens the final
\* text; confidence_score is that candidate's quality_score.
C17_ResultFromWinner ==
    pc = "done" =>
        \E k \in 1..Len(responses) :
            /\ responses[k] = best
            /\ result.provider_used = responses[k].provider
            /\ result.confidence_score = responses[k].quality_score
            /\ result.response_time = responses[k].response_time
            /\ IsPrefix(responses[k].content, result.content)

\* the vote returned a candidate that is not the one of highest quality, and the
\* two differ in provider, quality and latency
C17_Witness ==
    /\ pc = "done"
    /\ Len(responses) >= 2
    /\ best # responses[1]
    /\ best.provider # responses[1].provider
    /\ best.quality_score < responses[1].quality_score
    /\ best.response_time # responses[1].response_time

\* get_official_sources has returned
Retrieved == pc \in {"dispatch", "gather", "done"}

\* the trusted domains the table lists for the country of the request
TrustedDomains ==
    IF country \in DOMAIN official_domains
    THEN official_domains[country] ELSE official_domains["US"]

\* the place of a domain in that list
DomainRank(d) == CHOOSE n \in 1..Len(TrustedDomains) : TrustedDomains[n] = d

\* the domain whose search produced the source, and its rank among the results
\* of that search
OriginOf(src) == src.title[2]
ResultRank(src) == src.url[2]

\* C18: the retrieved source list has at most 5 entries, drawn from at most the
\* first 3 trusted domains of the jurisdiction with at most 2 entries per
\* domain, in insertion order (domain order, then result order); when more are
\* aggregated the list is cut after the fifth, so of 6 only the last is dropped.
C18_SourceListBounded ==
    Retrieved =>
        /\ Len(sources) <= 5
        /\ Len(searchLog) <= 3
        /\ \A i \in 1..Len(sources) :
              \E n \in 1..3 : n <= Len(TrustedDomains) /\ OriginOf(sources[i]) = TrustedDomains[n]
        /\ \A n \in 1..Len(TrustedDomains) :
              Cardinality({i \in 1..Len(sources) : OriginOf(sources[i]) = TrustedDomains[n]}) <= 2
        /\ \A i, j \in 1..Len(sources) :
              i < j =>
                  \/ DomainRank(OriginOf(sources[i])) < DomainRank(OriginOf(sources[j]))
                  \/ /\ OriginOf(sources[i]) = OriginOf(sources[j])
                     /\ ResultRank(sources[i]) < ResultRank(sources[j])
        /\ IsPrefix(sources, Aggregated(Len(searchLog)))
        /\ Len(Aggregated(Len(searchLog))) <= 5 => sources = Aggregated(Len(searchLog))
        /\ Len(Aggregated(Len(searchLog))) = 6 =>
              sources = SubSeq(Aggregated(Len(searchLog)), 1, 5)

\* three domains gave two results each and the second result of the third
\* domain was dropped
C18_Witness ==
    /\ pc = "dispatch"
    /\ Len(Aggregated(Len(searchLog))) = 6
    /\ Len(sources) = 5
    /\ sources[5].url = <<"nlrb.gov", 1>>
    /\ sources[1].url = <<"dol.gov", 1>>

\* the results search n has delivered: the topics with a 'Text' among the first
\* two of an HTTP 200 answer
Delivered(n) ==
    IF searchLog[n].kind = "ok"
    THEN {k \in 1..Len(searchLog[n].topics) : k <= 2 /\ searchLog[n].topics[k]}
    ELSE {}

\* C19: a search that fails for one trusted domain does not abort retrieval:
\* the domains after it are still queried, the results of the other domains are
\* still included, in order, and retrieval returns normally.
C19_SearchFailureIsolated ==
    /\ pc # "raised"
    /\ pc = "retrieving" => Len(searchLog) = domIdx - 1
    /\ Retrieved =>
          /\ Len(searchLog) = Min(3, Len(TrustedDomains))
          /\ (\E n \in 1..Len(searchLog) : searchLog[n].kind = "error") =>
                /\ \A n \in 1..Len(searchLog) : \A k \in Delivered(n) :
                      \E i \in 1..Len(sources) : sources[i].url = <<TrustedDomains[n], k>>
                /\ \A i, j \in 1..Len(sources) :
                      (i < j /\ sources[i].url[1] # MockHost /\ sources[j].url[1] # MockHost) =>
                          \/ DomainRank(sources[i].url[1]) < DomainRank(sources[j].url[1])
                          \/ /\ sources[i].url[1] = sources[j].url[1]
                             /\ sources[i].url[2] < sources[j].url[2]

\* the second of three searches failed; the two results of the first domain and
\* the two of the third are in the list, around the entry of the failed search
C19_Witness ==
    /\ pc = "dispatch"
    /\ Len(searchLog) = 3
    /\ searchLog[1].kind = "ok" /\ searchLog[2].kind = "error" /\ searchLog[3].kind = "ok"
    /\ Len(sources) = 5
    /\ sources[2].url = <<"dol.gov", 2>>
    /\ sources[3].url[1] = MockHost
    /\ sources[5].url = <<"nlrb.gov", 2>>

\* every search of the request failed
AllSearchesFailed ==
    /\ Retrieved
    /\ \A n \in 1..Len(searchLog) : searchLog[n].kind = "error"

\* C20 (as claimed): when every domain search of the request fails, the source
\* list holds exactly one synthetic placeholder.
C20_OnePlaceholder ==
    AllSearchesFailed =>
        /\ Len(sources) = 1
        /\ sources[1].url[1] = MockHost

\* C20 (amended): when every domain search of the request fails, the source
\* list holds one synthetic placeholder for each trusted domain queried, one to
\* three entries, and nothing else.
C20_PlaceholderPerDomain ==
    AllSearchesFailed =>
        /\ Len(sources) = Min(3, Len(TrustedDomains))
        /\ Len(sources) \in 1..3
        /\ \A i \in 1..Len(sources) :
              /\ sources[i].url[1] = MockHost
              /\ OriginOf(sources[i]) = TrustedDomains[i]

\* the three searches of a US request failed and the list holds three
\* placeholders
C20_Witness ==
    /\ AllSearchesFailed
    /\ country = "US"
    /\ Len(searchLog) = 3
    /\ Len(sources) = 3
    /\ \A i \in 1..3 : sources[i].url[1] = MockHost

\* C21 (as claimed): every adapter call returns a response and never raises;
\* when the backend is unconfigured or its call raised, the response has its
\* failure set, empty content and no tokens; the failure is unset only when the
\* backend call returned.
C21_AdapterTotal ==
    \A i \in 1..Len(tasks) :
        tasks[i].status = "done" =>
            /\ tasks[i].result.kind = "LLMResponse"
            /\ tasks[i].call \in {"unconfigured", "raised"} =>
                  /\ Truthy(tasks[i].result.error)
                  /\ tasks[i].result.content = << >>
                  /\ tasks[i].result.tokens_used = 0
            /\ ~Truthy(tasks[i].result.error) => tasks[i].call = "returned"

\* what holds in the code: a response is always returned, and after a failed
\* call its error is a string, possibly the empty one, its content is empty and
\* its tokens are 0; error is None exactly after a call that returned
AdapterMarksFailure ==
    \A i \in 1..Len(tasks) :
        tasks[i].status = "done" =>
            /\ tasks[i].result.kind = "LLMResponse"
            /\ tasks[i].call \in {"unconfigured", "raised"} =>
                  /\ tasks[i].result.error # None
                  /\ tasks[i].result.content = << >>
                  /\ tasks[i].result.tokens_used = 0
            /\ tasks[i].result.error = None <=> tasks[i].call = "returned"

\* C22: with an empty source list the formatter returns the content unchanged,
\* for every content, the empty one included.
C22_FormatIdentity ==
    (pc = "done" /\ sources = << >>) => result.content = best.content

\* the empty content was formatted with no source, and stayed empty
C22_Witness ==
    /\ pc = "done"
    /\ sources = << >>
    /\ best.content = << >>
    /\ result.content = << >>

\* C23: with n >= 1 sources the formatted text is the winning content,
\* unmodified, followed by a footer whose last n lines are the legend: line i
\* is "[i] title_i - url_i" for the i-th retrieved source, 1..n in retrieval
\* order, one line per source and no other.
C23_LegendLines ==
    (pc = "done" /\ Len(sources) >= 1) =>
        LET n == Len(sources)
            text == result.content
            body == Len(best.content)
        IN  /\ IsPrefix(best.content, text)
            /\ Len(text) = body + 1 + n
            /\ text[body + 1] = <<"sources-header">>
            /\ \A i \in 1..n :
                  text[Len(text) - n + i] = <<"legend", i, sources[i].title, sources[i].url>>

\* two domains with two results each: the legend has four lines and its last
\* one is the second result of the second domain
C23_Witness ==
    /\ pc = "done"
    /\ country = "AU"
    /\ Len(sources) = 4
    /\ sources[2].url = <<"fairwork.gov.au", 2>>
    /\ result.content[Len(result.content)] =
          <<"legend", 4, sources[4].title, <<"safeworkaustralia.gov.au", 2>> >>

\* the state of a request is made of its own arguments and of the outcomes of
\* its own calls: the sources are those its own searches aggregated, the
\* candidates are the results of its own adapter calls (or the fallback built
\* from its own country and query), and the result is put together from these
OwnInputsOnly ==
    /\ pc = "idle" =>
          /\ sources = << >> /\ tasks = << >> /\ filtered = << >>
          /\ responses = << >> /\ best = NoResponse /\ result = NoResult
    /\ Retrieved =>
          /\ IsPrefix(sources, Aggregated(Len(searchLog)))
          /\ Len(sources) = Min(5, Len(Aggregated(Len(searchLog))))
    /\ \A i \in 1..Len(tasks) :
          tasks[i].prompt = query /\ tasks[i].system_context[1] = context
    /\ pc = "done" =>
          /\ \A k \in 1..Len(responses) :
                \/ \E i \in 1..Len(tasks) : Unscored(responses[k]) = tasks[i].result
                \/ Unscored(responses[k]) = fallback_response(country, query)
          /\ \E k \in 1..Len(responses) : best = responses[k]
          /\ Len(result.sources) = Len(sources)
          /\ \A i \in 1..Len(sources) : result.sources[i].url = sources[i].url
          /\ IsPrefix(best.content, result.content)

\* C24: the engine holds no state across requests: a request leaves the
\* configured clients unchanged, and its result depends only on its arguments
\* and on the outcomes of its own search and backend calls, whatever requests
\* the instance served before.
C24_NoCrossRequestState ==
    /\ [][clients' = clients]_vars
    /\ []OwnInputsOnly

\* an instance that has served a request before completes another one with
\* sources and backend candidates
C24_Witness ==
    /\ reused
    /\ pc = "done"
    /\ sources # << >>
    /\ filtered # << >>

RECURSIVE KeptFrom(_)
\* the results without a visible error of the tasks i, i+1, ..., in llm_tasks order
KeptFrom(i) ==
    IF i > Len(tasks) THEN << >>
    ELSE (IF tasks[i].result.error \in {None, ""} THEN <<tasks[i].result>> ELSE << >>)
         \o KeptFrom(i + 1)

\* C25: the joined candidate list is in adapter-registration order: it is the
\* list of the kept results in the order the calls were registered, so result
\* and winner are fixed by the per-adapter outcomes and not by the order in
\* which the calls finished.
C25_RegistrationOrder ==
    /\ pc = "done" /\ tasks # << >> => filtered = KeptFrom(1)
    /\ pc = "done" =>
          /\ \A k \in 1..Len(responses) : \A j \in 1..Len(responses) :
                (k < j /\ Len(filtered) >= 2) =>
                    \/ responses[k].quality_score > responses[j].quality_score
                    \/ /\ responses[k].quality_score = responses[j].quality_score
                       /\ RegPos(responses[k]) <= RegPos(responses[j])
          /\ \E k \in 1..Len(responses) :
                /\ best = responses[k]
                /\ \A j \in 1..Len(responses) : VoteScore(responses[j]) <= VoteScore(best)

\* the first and third of four calls failed; the second and fourth, with
\* different replies, are the candidates, in that order
C25_Witness ==
    /\ pc = "done"
    /\ Len(tasks) = 4
    /\ Truthy(tasks[1].result.error) /\ Truthy(tasks[3].result.error)
    /\ filtered = <<tasks[2].result, tasks[4].result>>
    /\ tasks[2].result.content # tasks[4].result.content

\* C26: every candidate that enters selection, backend candidate or fallback,
\* gets its quality_score from the Quality Scorer after source retrieval has
\* completed and before the vote; none is scored earlier and none reaches the
\* vote with its quality_score unset.
C26_ScoredBeforeVote ==
    /\ \A i \in 1..Len(tasks) : tasks[i].result.quality_score = Unset
    /\ \A k \in 1..Len(filtered) : filtered[k].quality_score = Unset
    /\ ~Retrieved => responses = << >>
    /\ \A k \in 1..Len(responses) :
          /\ responses[k].quality_score # Unset
          /\ responses[k].quality_score = ClaimedQuality(responses[k], Len(sources))
    /\ pc = "done" => best.quality_score # Unset /\ Len(responses) >= 1

\* three candidates went into the vote with sources retrieved, each with the
\* score of the Quality Scorer
C26_Witness ==
    /\ pc = "done"
    /\ Len(responses) >= 3
    /\ sources # << >>
    /\ \A k \in 1..Len(responses) : responses[k].quality_score >= 500 * Len(sources)

\* C27: no adapter is invoked before source retrieval has completed, adapters
\* are launched only for configured backends, and every adapter launched
\* receives the same query and the same augmented system context, which lists
\* all retrieved sources.
C27_DispatchAfterRetrieval ==
    /\ tasks # << >> =>
          /\ pc \in {"gather", "done"}
          /\ Len(searchLog) = Min(3, Len(TrustedDomains))
    /\ \A i \in 1..Len(tasks) :
          /\ tasks[i].fn = "call_openai" => clients.openai
          /\ tasks[i].fn = "call_gemini" => clients.google
          /\ tasks[i].fn = "call_claude" => clients.anthropic
          /\ tasks[i].prompt = query
          /\ tasks[i].system_context = tasks[1].system_context
          /\ tasks[i].system_context[1] = context
          /\ Len(tasks[i].system_context[2]) = Len(sources)
          /\ \A n \in 1..Len(sources) :
                /\ tasks[i].system_context[2][n][2] = sources[n].title
                /\ tasks[i].system_context[2][n][3] = sources[n].snippet

\* OpenAI and Anthropic are configured and Gemini is not: four calls were
\* launched with a context listing five sources, and one of them is in flight
C27_Witness ==
    /\ pc = "gather"
    /\ clients.openai /\ ~clients.google /\ clients.anthropic
    /\ Len(tasks) = 4
    /\ Len(sources) = 5
    /\ Len(tasks[4].system_context[2]) = 5
    /\ \E i \in 1..Len(tasks) : tasks[i].status = "running"

\* some call launched for the request never completes
SomeCallHung == \E i \in 1..Len(tasks) : tasks[i].status = "hung"

\* C28: if every search and every launched adapter call of a request
\* completes, the request eventually returns a result; if a launched adapter
\* call never completes the request never returns, even when other calls have
\* succeeded.
C28_Termination ==
    /\ (pc = "retrieving") ~> (pc = "done" \/ SomeCallHung)
    /\ [](SomeCallHung => pc = "gather")
    /\ [][SomeCallHung => SomeCallHung']_vars

\* the first call returned a text, the second never returns, and the request
\* is still waiting
C28_Witness ==
    /\ pc = "gather"
    /\ Succeeded(1)
    /\ tasks[2].status = "hung"

\* the hosts of the at most three trusted domains queried for the country
QueriedDomains ==
    {TrustedDomains[n] : n \in 1..Min(3, Len(TrustedDomains))}

\* C29 (as claimed): with a search API that honours the site: restriction,
\* every source returned for a request, and so every legend entry and every
\* entry of the result's sources, has its url on one of the at most three
\* trusted domains queried for the country (those of the default country when
\* the country is not in the table).
C29_TrustedUrls ==
    /\ Retrieved => \A i \in 1..Len(sources) : sources[i].url[1] \in QueriedDomains
    /\ pc = "done" =>
          /\ \A i \in 1..Len(result.sources) : result.sources[i].url[1] \in QueriedDomains
          /\ \A k \in 1..Len(result.content) :
                result.content[k][1] = "legend" => result.content[k][4][1] \in QueriedDomains

\* what holds in the code: a url is on a queried trusted domain or is the mock
\* url, and the mock url stands for searches that raised
TrustedOrMock ==
    Retrieved =>
        \A i \in 1..Len(sources) :
            \/ sources[i].url[1] \in QueriedDomains
            \/ /\ sources[i].url[1] = MockHost
               /\ \E n \in 1..Len(searchLog) :
                     searchLog[n].kind = "error" /\ OriginOf(sources[i]) = TrustedDomains[n]

\* the legend of the final text: its lines after the content of the winner and
\* the header
Legend == SubSeq(result.content, Len(best.content) + 2, Len(result.content))

\* C30: the number under which a source is listed in the augmented prompt given
\* to the backends is the number [i] of that source in the appended legend and
\* its position in the result's sources: the three lists have the same length
\* and the same sources in the same order.
C30_CitationNumbering ==
    (pc = "done" /\ sources # << >>) =>
        /\ Len(Legend) = Len(result.sources)
        /\ \A i \in 1..Len(Legend) :
              /\ Legend[i][1] = "legend"
              /\ Legend[i][2] = i
              /\ Legend[i][3] = result.sources[i].title
              /\ Legend[i][4] = result.sources[i].url
        /\ \A t \in 1..Len(tasks) :
              LET listed == tasks[t].system_context[2]
              IN  /\ Len(listed) = Len(Legend)
                  /\ \A i \in 1..Len(listed) :
                        /\ listed[i][1] = Legend[i][2]
                        /\ listed[i][2] = Legend[i][3]

\* backends were given a prompt listing five sources, a mock entry among them,
\* and the result has the legend and the sources list of the same five
C30_Witness ==
    /\ pc = "done"
    /\ tasks # << >>
    /\ Len(result.sources) = 5
    /\ Len(Legend) = 5
    /\ result.sources[3].url[1] = MockHost
    /\ tasks[1].system_context[2][5][1] = 5

====
